---- MODULE Spec2Model ----
(***************************************************************************)
(* Pyckson: the model builder (pyckson/model/builder.py) and the converter *)
(* library (pyckson/parsers/base.py).                                      *)
(*                                                                         *)
(* Runtime values are tagged pairs <<kind, payload>>:                      *)
(*   <<"str", chars>>   a string, chars a sequence of one-letter strings   *)
(*   <<"int", n>>  <<"bool", 0 or 1>>  <<"null", 0>>                       *)
(*   <<"list", seq>>    <<"set", set>>                                     *)
(*   <<"dict", seq of <<key, value>> >>   (insertion ordered, keys chars)  *)
(*   <<"enum", <<class, member name>> >>                                   *)
(* A converter is a tagged pair as well:                                   *)
(*   <<"Basic", 0>>  <<"Cast", cls>>  <<"List", sub>>  <<"Set", sub>>      *)
(*   <<"DefaultEnum", E>>  <<"CIEnum", E>>  <<"Dict", sub>>                *)
(*   <<"Union", seq of converters>>                                        *)
(* The outcome of a call is a record [st, val, calls]: st is "ok" or the   *)
(* class of the exception raised, val the value returned, calls the        *)
(* sequence of <<converter, value>> calls made on sub-converters.          *)
(***************************************************************************)
EXTENDS Integers, Sequences, FiniteSets, TLC

VARIABLES pc, op, cls, parser, json_value, result

vars == <<pc, op, cls, parser, json_value, result>>

----------------------------------------------------------------------------
(* Bounds of the input universe *)

MaxLen == 2
MaxStrLen == 2
MaxAlts == 2
MaxParams == 2

----------------------------------------------------------------------------
(* Values and outcomes *)

None == <<"null", 0>>

NoValue == <<"none", 0>>

Ok(v, calls) == [st |-> "ok", val |-> v, calls |-> calls]

Raise(exc, calls) == [st |-> exc, val |-> NoValue, calls |-> calls]

SeqsUpTo(S, n) == UNION {[1..k -> S] : k \in 0..n}

Chars == {"a", "A", "b", "B"}

LowerChar(c) == CASE c = "A" -> "a" [] c = "B" -> "b" [] OTHER -> c

UpperChar(c) == CASE c = "a" -> "A" [] c = "b" -> "B" [] OTHER -> c

StrLower(s) == [i \in 1..Len(s) |-> LowerChar(s[i])]

(* Enum classes: the member names in definition order. *)
EnumClasses == {"Color", "Mixed"}

Members(E) ==
    CASE E = "Color" -> << <<"a", "b">>, <<"B">> >>
      [] E = "Mixed" -> << <<"a">>, <<"A">>, <<"b">> >>

MemberNames(E) == {Members(E)[i] : i \in 1..Len(Members(E))}

EnumMember(E, name) == <<"enum", <<E, name>>>>

(* isinstance(v, c) for the classes converters carry in their cls attribute:
   bool is a subclass of int, every enum member is an instance of Enum. *)
IsInstance(v, c) ==
    CASE c = "int" -> v[1] \in {"int", "bool"}
      [] c = "Enum" -> v[1] = "enum"
      [] c \in EnumClasses -> v[1] = "enum" /\ v[2][1] = c
      [] OTHER -> v[1] = c

(* cls(json_value) for a value that passed the isinstance test. *)
Construct(c, v) == IF c = "int" THEN <<"int", v[2]>> ELSE v

Unhashable(v) == v[1] \in {"list", "dict", "set"}

(* Python equality between two hashable values: True == 1. *)
PyEq(a, b) ==
    \/ a = b
    \/ /\ a[1] \in {"int", "bool"}
       /\ b[1] \in {"int", "bool"}
       /\ a[2] = b[2]

SetAdd(S, v) == IF \E e \in S : PyEq(e, v) THEN S ELSE S \cup {v}

----------------------------------------------------------------------------
(* The converter library, parsers/base.py *)

HasCls(p) == p[1] \in {"Cast", "List", "Set", "DefaultEnum", "CIEnum"}

ClsOf(p) ==
    CASE p[1] = "Cast" -> p[2]
      [] p[1] = "List" -> "list"
      [] p[1] = "Set" -> "set"
      [] p[1] = "DefaultEnum" -> p[2]
      [] p[1] = "CIEnum" -> "Enum"

RECURSIVE Parse(_, _)
RECURSIVE ListComp(_, _)
RECURSIVE SetComp(_, _, _)
RECURSIVE DictComp(_, _)

BasicParserParse(v) == Ok(v, <<>>)

BasicParserWithCastParse(c, v) ==
    IF ~IsInstance(v, c)
    THEN Raise("ParserException", <<>>)
    ELSE Ok(Construct(c, v), <<>>)

(* Faulty variant: a failing item is dropped instead of aborting the comprehension. *)
RECURSIVE ListCompSkipsFailures(_, _)
ListCompSkipsFailures(sub, items) ==
    IF items = <<>>
    THEN Ok(<<>>, <<>>)
    ELSE LET r == Parse(sub, Head(items))
             c == << <<sub, Head(items)>> >>
             rest == ListCompSkipsFailures(sub, Tail(items))
         IN IF rest.st # "ok"
            THEN Raise(rest.st, c \o rest.calls)
            ELSE IF r.st # "ok"
            THEN Ok(rest.val, c \o rest.calls)
            ELSE Ok(<<r.val>> \o rest.val, c \o rest.calls)

(* [self.sub_parser.parse(item) for item in json_value]: val is the bare
   sequence built so far; the first failing item aborts the comprehension. *)
ListComp(sub, items) ==
    IF items = <<>>
    THEN Ok(<<>>, <<>>)
    ELSE LET r == Parse(sub, Head(items))
             c == << <<sub, Head(items)>> >>
         IN IF r.st # "ok"
            THEN Raise(r.st, c)
            ELSE LET rest == ListComp(sub, Tail(items))
                 IN IF rest.st # "ok"
                    THEN Raise(rest.st, c \o rest.calls)
                    ELSE Ok(<<r.val>> \o rest.val, c \o rest.calls)

(* Faulty variant: no isinstance test, so a string is iterated letter by letter. *)
ListParserParseIteratesStr(sub, v) ==
    IF ~IsInstance(v, "list") /\ ~IsInstance(v, "str")
    THEN Raise("ParserException", <<>>)
    ELSE LET items == IF v[1] = "str"
                      THEN [i \in 1..Len(v[2]) |-> <<"str", <<v[2][i]>>>>]
                      ELSE v[2]
             r == ListComp(sub, items)
         IN IF r.st = "ok" THEN Ok(<<"list", r.val>>, r.calls) ELSE r

ListParserParse(sub, v) ==
    IF ~IsInstance(v, "list")
    THEN Raise("ParserException", <<>>)
    ELSE LET r == ListComp(sub, v[2])
         IN IF r.st = "ok" THEN Ok(<<"list", r.val>>, r.calls) ELSE r

(* {self.sub_parser.parse(item) for item in json_value}: each converted item
   is hashed as it is added, so an unhashable result raises TypeError before
   the next item is converted. *)
SetComp(sub, items, acc) ==
    IF items = <<>>
    THEN Ok(acc, <<>>)
    ELSE LET r == Parse(sub, Head(items))
             c == << <<sub, Head(items)>> >>
         IN IF r.st # "ok"
            THEN Raise(r.st, c)
            ELSE IF Unhashable(r.val)
            THEN Raise("TypeError", c)
            ELSE LET rest == SetComp(sub, Tail(items), SetAdd(acc, r.val))
                 IN IF rest.st # "ok"
                    THEN Raise(rest.st, c \o rest.calls)
                    ELSE Ok(rest.val, c \o rest.calls)

SetParserParse(sub, v) ==
    IF ~IsInstance(v, "set") /\ ~IsInstance(v, "list")
    THEN Raise("ParserException", <<>>)
    ELSE LET r == SetComp(sub, v[2], {})
         IN IF r.st = "ok" THEN Ok(<<"set", r.val>>, r.calls) ELSE r

(* value not in self.cls.__members__: hashing an unhashable value raises
   TypeError; any other value that is not a member name is rejected. *)
DefaultEnumParserParse(E, v) ==
    IF Unhashable(v)
    THEN Raise("TypeError", <<>>)
    ELSE IF ~(v[1] = "str" /\ v[2] \in MemberNames(E))
    THEN Raise("ParserException", <<>>)
    ELSE Ok(EnumMember(E, v[2]), <<>>)

(* {member.name.lower(): member for member in cls}: a later member replaces
   an earlier one with the same lowered name. *)
CaseInsensitiveEnumParserValues(E) ==
    LET ms == Members(E)
        last(k) == CHOOSE i \in 1..Len(ms) :
                      /\ StrLower(ms[i]) = k
                      /\ \A j \in 1..Len(ms) : StrLower(ms[j]) = k => j <= i
    IN [k \in {StrLower(ms[i]) : i \in 1..Len(ms)} |-> EnumMember(E, ms[last(k)])]

(* Faulty variant: the value is looked up as given, not lowered. *)
CaseInsensitiveEnumParserParseNoLower(E, v) ==
    IF v[1] # "str"
    THEN Raise("AttributeError", <<>>)
    ELSE IF v[2] \notin DOMAIN CaseInsensitiveEnumParserValues(E)
    THEN Raise("ParserException", <<>>)
    ELSE Ok(CaseInsensitiveEnumParserValues(E)[v[2]], <<>>)

CaseInsensitiveEnumParserParse(E, v) ==
    IF v[1] # "str"
    THEN Raise("AttributeError", <<>>)
    ELSE IF StrLower(v[2]) \notin DOMAIN CaseInsensitiveEnumParserValues(E)
    THEN Raise("ParserException", <<>>)
    ELSE Ok(CaseInsensitiveEnumParserValues(E)[StrLower(v[2])], <<>>)

(* {k: self.value_parser.parse(v) for k, v in json_value.items()} *)
DictComp(sub, pairs) ==
    IF pairs = <<>>
    THEN Ok(<<>>, <<>>)
    ELSE LET k == Head(pairs)[1]
             r == Parse(sub, Head(pairs)[2])
             c == << <<sub, Head(pairs)[2]>> >>
         IN IF r.st # "ok"
            THEN Raise(r.st, c)
            ELSE LET rest == DictComp(sub, Tail(pairs))
                 IN IF rest.st # "ok"
                    THEN Raise(rest.st, c \o rest.calls)
                    ELSE Ok(<< <<k, r.val>> >> \o rest.val, c \o rest.calls)

(* json_value.items() exists on a dict only; there is no isinstance test. *)
TypingDictParserParse(sub, v) ==
    IF v[1] # "dict"
    THEN Raise("AttributeError", <<>>)
    ELSE LET r == DictComp(sub, v[2])
         IN IF r.st = "ok" THEN Ok(<<"dict", r.val>>, r.calls) ELSE r

UnionMatches(p, v) == HasCls(p) /\ IsInstance(v, ClsOf(p))

UnionParserParse(alts, v) ==
    IF \E i \in 1..Len(alts) : UnionMatches(alts[i], v)
    THEN LET i == CHOOSE i \in 1..Len(alts) :
                     /\ UnionMatches(alts[i], v)
                     /\ \A j \in 1..(i - 1) : ~UnionMatches(alts[j], v)
             r == Parse(alts[i], v)
         IN [r EXCEPT !.calls = << <<alts[i], v>> >>]
    ELSE Raise("TypeError", <<>>)

Parse(p, v) ==
    CASE p[1] = "Basic" -> BasicParserParse(v)
      [] p[1] = "Cast" -> BasicParserWithCastParse(p[2], v)
      [] p[1] = "List" -> ListParserParse(p[2], v)
      [] p[1] = "Set" -> SetParserParse(p[2], v)
      [] p[1] = "DefaultEnum" -> DefaultEnumParserParse(p[2], v)
      [] p[1] = "CIEnum" -> CaseInsensitiveEnumParserParse(p[2], v)
      [] p[1] = "Dict" -> TypingDictParserParse(p[2], v)
      [] p[1] = "Union" -> UnionParserParse(p[2], v)

----------------------------------------------------------------------------
(* The model builder, model/builder.py.

   A declared type is a tagged pair: <<"scalar", "str">>, <<"List", T>>,
   <<"Union", <<T1, ..., Tn>> >> (typing.Union[T1, ..., Tn]), NoneType. A Parameter is a record [name, annotation, kind, default];
   Empty is Parameter.empty. A class is a record
     [hasInit, rule, strict, params]
   hasInit: getmembers(cls) lists an '__init__' member (a class that
   defines none inherits object.__init__, whose signature is
   (self, *args, **kwargs); only a class whose metaclass hides its members
   lists none); params: the
   parameters of its signature, the receiver first; rule: the name rule
   get_name_rule(cls) returns; strict: the provider binds casting scalar
   converters for this class. *)

Empty == <<"empty", 0>>

NoneType == <<"NoneType", 0>>

StrType == <<"scalar", "str">>

IntType == <<"scalar", "int">>

ListType(t) == <<"List", t>>

UnionType(ts) == <<"Union", ts>>

OptionalType(t) == UnionType(<<t, NoneType>>)

SelfName == <<"s", "e", "l", "f">>

RECURSIVE CamelCase(_, _)
CamelCase(name, capitalize) ==
    IF name = <<>>
    THEN <<>>
    ELSE IF Head(name) = "_"
    THEN CamelCase(Tail(name), TRUE)
    ELSE <<IF capitalize THEN UpperChar(Head(name)) ELSE Head(name)>>
             \o CamelCase(Tail(name), FALSE)

name_rule(c, name) == IF c.rule = "camel" THEN CamelCase(name, FALSE) ELSE name

RECURSIVE ParserProviderGet(_, _)
ParserProviderGet(c, t) ==
    CASE t[1] = "scalar" -> IF c.strict THEN <<"Cast", t[2]>> ELSE <<"Basic", 0>>
      [] t[1] = "List" -> <<"List", ParserProviderGet(c, t[2])>>
      [] t[1] = "Union" ->
            <<"Union", [i \in 1..Len(t[2]) |-> ParserProviderGet(c, t[2][i])]>>

SerializerProviderGet(c, t) == <<"Serializer", t>>

find_constructor(c) ==
    IF c.hasInit THEN Ok(c.params, <<>>) ELSE Raise("ValueError", <<>>)

(* issubclass(param_type, Union), the first operand of is_optional_type.
   typing.Union is a special form, not a class: the call raises TypeError
   for every param_type, a union or not. *)
issubclass_Union(t) == Raise("TypeError", <<>>)

(* issubclass(param_type, Union) and len(param_type.__union_params__) == 2
   and isinstance(None, param_type.__union_params__[1]): the operands are
   evaluated left to right, an exception in one ends the call. *)
is_optional_type(t) ==
    LET sub == issubclass_Union(t)
    IN IF sub.st # "ok"
       THEN sub
       ELSE Ok(/\ sub.val
               /\ Len(t[2]) = 2
               /\ t[2][2] = NoneType, <<>>)

build_attribute(c, parameter) ==
    LET python_name == parameter.name
        json_name == name_rule(c, parameter.name)
        optional == parameter.default # Empty
    IN IF parameter.annotation = Empty
       THEN Raise("TypeError", <<>>)
       ELSE IF parameter.kind # "POSITIONAL_OR_KEYWORD"
       THEN Raise("TypeError", <<>>)
       ELSE LET is_optional == is_optional_type(parameter.annotation)
            IN IF is_optional.st # "ok"
               THEN is_optional
               ELSE IF is_optional.val
               THEN Ok([python_name |-> python_name,
                        json_name |-> json_name,
                        type |-> parameter.annotation[2][1],
                        optional |-> TRUE,
                        serializer |-> SerializerProviderGet(c, StrType),
                        parser |-> ParserProviderGet(c, StrType)], <<>>)
               ELSE Ok([python_name |-> python_name,
                        json_name |-> json_name,
                        type |-> parameter.annotation,
                        optional |-> optional,
                        serializer |-> SerializerProviderGet(c, parameter.annotation),
                        parser |-> ParserProviderGet(c, parameter.annotation)], <<>>)

(* The loop of build_model over the signature's parameters: the receiver is
   skipped, the first parameter build_attribute rejects aborts the build. *)
RECURSIVE build_attributes(_, _)
build_attributes(c, ps) ==
    IF ps = <<>>
    THEN Ok(<<>>, <<>>)
    ELSE IF Head(ps).name = SelfName
    THEN build_attributes(c, Tail(ps))
    ELSE LET a == build_attribute(c, Head(ps))
         IN IF a.st # "ok"
            THEN a
            ELSE LET rest == build_attributes(c, Tail(ps))
                 IN IF rest.st # "ok" THEN rest ELSE Ok(<<a.val>> \o rest.val, <<>>)

build_model(c) ==
    LET constructor == find_constructor(c)
    IN IF constructor.st # "ok"
       THEN constructor
       ELSE build_attributes(c, constructor.val)

----------------------------------------------------------------------------
(* The parse entry point, pyckson/parser.py: for each attribute of the
   model in order, convert the field found under its external name, reject
   the absence of a non-optional one, then call the constructor with the
   converted fields; a parameter that receives nothing keeps its default. *)

MissingFieldError == "ValueError"

HasKey(pairs, k) == \E i \in 1..Len(pairs) : pairs[i][1] = k

Lookup(pairs, k) == pairs[CHOOSE i \in 1..Len(pairs) : pairs[i][1] = k][2]

ParamNamed(c, name) ==
    c.params[CHOOSE i \in 1..Len(c.params) : c.params[i].name = name]

RECURSIVE parse_attributes(_, _, _)
parse_attributes(c, attrs, pairs) ==
    IF attrs = <<>>
    THEN Ok(<<>>, <<>>)
    ELSE LET a == Head(attrs)
             present == HasKey(pairs, a.json_name)
             r == IF present
                  THEN Parse(a.parser, Lookup(pairs, a.json_name))
                  ELSE IF a.optional
                  THEN Ok(ParamNamed(c, a.python_name).default, <<>>)
                  ELSE Raise(MissingFieldError, <<>>)
         IN IF r.st # "ok"
            THEN Raise(r.st, <<>>)
            ELSE LET rest == parse_attributes(c, Tail(attrs), pairs)
                 IN IF rest.st # "ok"
                    THEN rest
                    ELSE Ok(<< <<a.python_name, r.val>> >> \o rest.val, <<>>)

parse(c, j) ==
    LET model == build_model(c)
    IN IF model.st # "ok"
       THEN model
       ELSE LET r == parse_attributes(c, model.val, j[2])
            IN IF r.st = "ok" THEN Ok(<<"object", r.val>>, <<>>) ELSE r

----------------------------------------------------------------------------
(* Input universe of the converter calls: decoded JSON trees *)

Strs == {<<"str", s>> : s \in SeqsUpTo(Chars, MaxStrLen)}

Atoms == {<<"str", <<"a">>>>, <<"int", 1>>, <<"bool", 1>>, None}

ListOf(items) == <<"list", items>>

KeyAt(i) == [j \in 1..i |-> "b"]

ObjOf(vals) == <<"dict", [i \in 1..Len(vals) |-> <<KeyAt(i), vals[i]>>]>>

FlatLists == {ListOf(s) : s \in SeqsUpTo(Atoms, MaxLen)}

FlatObjs == {ObjOf(s) : s \in SeqsUpTo(Atoms, MaxLen)}

SmallInner ==
    {ListOf(s) : s \in SeqsUpTo(Atoms, 1)} \cup {ObjOf(s) : s \in SeqsUpTo(Atoms, 1)}

NestedLists == {ListOf(s) : s \in SeqsUpTo(SmallInner, MaxLen)}

NestedObjs == {ObjOf(s) : s \in SeqsUpTo(SmallInner, MaxLen)}

JsonValues == Atoms \cup FlatLists \cup FlatObjs \cup NestedLists \cup NestedObjs

LeafParsers ==
    {<<"Basic", 0>>, <<"Cast", "int">>, <<"Cast", "str">>, <<"DefaultEnum", "Color">>}

Containers(subs) ==
    {<<"List", s>> : s \in subs} \cup {<<"Set", s>> : s \in subs}
        \cup {<<"Dict", s>> : s \in subs}

ElementParsers == LeafParsers \cup Containers(LeafParsers)

AltParsers ==
    {<<"Basic", 0>>, <<"Cast", "str">>, <<"Cast", "int">>, <<"Cast", "bool">>,
     <<"List", <<"Cast", "int">>>>, <<"Dict", <<"Basic", 0>>>>,
     <<"DefaultEnum", "Color">>}

UnionValues ==
    Atoms \cup {ListOf(<<>>), ListOf(<< <<"int", 1>> >>), ListOf(<< None >>),
                ObjOf(<< <<"int", 1>> >>)}

(* Input universe of the builder: classes and their signatures *)

ParamNames == {<<"a">>, <<"a", "_", "b">>, <<"a", "B">>}

Annotations ==
    {Empty, StrType, IntType, OptionalType(IntType),
     OptionalType(ListType(IntType)), UnionType(<<StrType, IntType>>)}

Shape(a, k, d) == [annotation |-> a, kind |-> k, default |-> d]

BuildShapes ==
    {Shape(a, "POSITIONAL_OR_KEYWORD", d) : a \in Annotations, d \in {Empty, None}}
        \cup {Shape(a, "VAR_POSITIONAL", Empty) : a \in {Empty, StrType}}
        \cup {Shape(StrType, "KEYWORD_ONLY", d) : d \in {Empty, None}}
        \cup {Shape(Empty, "VAR_KEYWORD", Empty)}

ParseShapes ==
    {Shape(StrType, "POSITIONAL_OR_KEYWORD", Empty),
     Shape(IntType, "POSITIONAL_OR_KEYWORD", Empty),
     Shape(IntType, "POSITIONAL_OR_KEYWORD", <<"int", 7>>),
     Shape(OptionalType(IntType), "POSITIONAL_OR_KEYWORD", None),
     Shape(OptionalType(ListType(IntType)), "POSITIONAL_OR_KEYWORD", None)}

Injective(s) == \A i, j \in 1..Len(s) : s[i] = s[j] => i = j

Parameter(name, shape) ==
    [name |-> name, annotation |-> shape.annotation, kind |-> shape.kind,
     default |-> shape.default]

SelfParameter == Parameter(SelfName, Shape(Empty, "POSITIONAL_OR_KEYWORD", Empty))

KindRank(k) ==
    CASE k = "POSITIONAL_OR_KEYWORD" -> 1
      [] k = "VAR_POSITIONAL" -> 2
      [] k = "KEYWORD_ONLY" -> 3
      [] k = "VAR_KEYWORD" -> 4

(* What a def statement accepts: named parameters first, those with a
   default last among them, then at most one *args, then keyword-only
   ones, then at most one **kwargs. *)
ValidShapes(ss) ==
    \A i, j \in 1..Len(ss) :
        i < j =>
            /\ KindRank(ss[i].kind) <= KindRank(ss[j].kind)
            /\ ss[i].kind = "VAR_POSITIONAL" => ss[j].kind # "VAR_POSITIONAL"
            /\ ss[i].kind = "VAR_KEYWORD" => ss[j].kind # "VAR_KEYWORD"
            /\ (/\ ss[i].kind = "POSITIONAL_OR_KEYWORD"
                /\ ss[j].kind = "POSITIONAL_OR_KEYWORD"
                /\ ss[i].default # Empty) => ss[j].default # Empty

(* (self, p1, ..., pn) with pairwise distinct parameter names *)
Signatures(shapes) ==
    {<<SelfParameter>> \o [i \in 1..Len(ns) |-> Parameter(ns[i], ss[i])] :
        <<ns, ss>> \in UNION {
            {ns \in [1..k -> ParamNames] : Injective(ns)}
                \X {ss \in [1..k -> shapes] : ValidShapes(ss)} :
                k \in 0..MaxParams}}

Classes(shapes) ==
    {[hasInit |-> TRUE, rule |-> r, strict |-> s, params |-> ps] :
        r \in {"identity", "camel"}, s \in BOOLEAN, ps \in Signatures(shapes)}

NoConstructorClasses ==
    {[hasInit |-> FALSE, rule |-> r, strict |-> s, params |-> <<>>] :
        r \in {"identity", "camel"}, s \in BOOLEAN}

PayloadValues == {<<"str", <<"a">>>>, <<"int", 1>>, ListOf(<< <<"int", 1>> >>)}

Absent == <<"absent", 0>>

(* The parameters build_model turns into attributes, in order *)
NonSelf(c) == SelectSeq(c.params, LAMBDA q : q.name # SelfName)

JsonNames(c) == {name_rule(c, NonSelf(c)[i].name) : i \in 1..Len(NonSelf(c))}

RECURSIVE PairsOf(_, _)
PairsOf(f, keys) ==
    IF keys = {}
    THEN <<>>
    ELSE LET k == CHOOSE k \in keys : TRUE
         IN (IF f[k] = Absent THEN <<>> ELSE << <<k, f[k]>> >>)
                \o PairsOf(f, keys \ {k})

(* The JSON objects over the external names of a class's parameters *)
Payloads(c) ==
    {<<"dict", PairsOf(f, JsonNames(c))>> :
        f \in [JsonNames(c) -> PayloadValues \cup {Absent}]}

----------------------------------------------------------------------------
(* One call per behaviour: the operations are pure functions of their inputs *)

Init ==
    /\ pc = "start"
    /\ op = "none"
    /\ cls = NoValue
    /\ parser = NoValue
    /\ json_value = NoValue
    /\ result = NoValue

Call(name, p, v) ==
    /\ pc' = "done"
    /\ op' = name
    /\ parser' = p
    /\ json_value' = v
    /\ result' = Parse(p, v)
    /\ UNCHANGED cls

BasicParse ==
    /\ pc = "start"
    /\ \E v \in JsonValues :
          Call("BasicParser.parse", <<"Basic", 0>>, v)

CastParse ==
    /\ pc = "start"
    /\ \E c \in {"str", "int", "bool"}, v \in JsonValues :
          Call("BasicParserWithCast.parse", <<"Cast", c>>, v)

ListParse ==
    /\ pc = "start"
    /\ \E s \in ElementParsers, v \in JsonValues :
          Call("ListParser.parse", <<"List", s>>, v)

SetParse ==
    /\ pc = "start"
    /\ \E s \in ElementParsers, v \in JsonValues :
          Call("SetParser.parse", <<"Set", s>>, v)

DictParse ==
    /\ pc = "start"
    /\ \E s \in ElementParsers, v \in JsonValues :
          Call("TypingDictParser.parse", <<"Dict", s>>, v)

DefaultEnumParse ==
    /\ pc = "start"
    /\ \E E \in EnumClasses, v \in Strs \cup Atoms \cup {ListOf(<<>>)} :
          Call("DefaultEnumParser.parse", <<"DefaultEnum", E>>, v)

CaseInsensitiveEnumParse ==
    /\ pc = "start"
    /\ \E E \in EnumClasses, v \in Strs \cup Atoms \cup {ListOf(<<>>)} :
          Call("CaseInsensitiveEnumParser.parse", <<"CIEnum", E>>, v)

UnionParse ==
    /\ pc = "start"
    /\ \E alts \in SeqsUpTo(AltParsers, MaxAlts), v \in UnionValues :
          Call("UnionParser.parse", <<"Union", alts>>, v)

BuildModel ==
    /\ pc = "start"
    /\ \E c \in Classes(BuildShapes) \cup NoConstructorClasses :
          /\ pc' = "done"
          /\ op' = "build_model"
          /\ cls' = c
          /\ result' = build_model(c)
          /\ UNCHANGED <<parser, json_value>>

ParseClass ==
    /\ pc = "start"
    /\ \E c \in Classes(ParseShapes) :
          \E j \in Payloads(c) :
              /\ pc' = "done"
              /\ op' = "parse"
              /\ cls' = c
              /\ json_value' = j
              /\ result' = parse(c, j)
              /\ UNCHANGED parser

Next ==
    \/ BuildModel
    \/ ParseClass
    \/ BasicParse
    \/ CastParse
    \/ ListParse
    \/ SetParse
    \/ DictParse
    \/ DefaultEnumParse
    \/ CaseInsensitiveEnumParse
    \/ UnionParse

Spec == Init /\ [][Next]_vars

----------------------------------------------------------------------------
(* Properties *)

Built == op = "build_model" /\ result.st = "ok"

Parsed == op = "parse"

(* Optional[T] shape: a union of two arms, one of them the null type *)
IsOptionalShape(t) ==
    /\ t[1] = "Union"
    /\ Len(t[2]) = 2
    /\ \E i \in 1..2 : t[2][i] = NoneType

OtherArm(t) == IF t[2][1] = NoneType THEN t[2][2] ELSE t[2][1]

(* The error kind ListParser, SetParser, BasicParserWithCast and the enum
   converters raise on a value of the wrong shape *)
TypeMismatchError == ListParserParse(<<"Basic", 0>>, None).st

(* What the declaration of the i-th parameter of the class under
   construction promises: its external name, its declared type T (the arm
   of an Optional[T]), the converter the provider resolves for T, and
   whether the attribute may be absent. *)
Count == Len(NonSelf(cls))

ExternalName(i) == name_rule(cls, NonSelf(cls)[i].name)

DeclaredType(i) ==
    IF IsOptionalShape(NonSelf(cls)[i].annotation)
    THEN OtherArm(NonSelf(cls)[i].annotation)
    ELSE NonSelf(cls)[i].annotation

Converter(i) == ParserProviderGet(cls, DeclaredType(i))

Required(i) ==
    /\ NonSelf(cls)[i].default = Empty
    /\ ~IsOptionalShape(NonSelf(cls)[i].annotation)

Present(i) == HasKey(json_value[2], ExternalName(i))

Converted(i) == Parse(Converter(i), Lookup(json_value[2], ExternalName(i)))

Field(name) == Lookup(result.val[2], name)

UntypedParameterClass ==
    [hasInit |-> TRUE, rule |-> "identity", strict |-> FALSE,
     params |-> <<SelfParameter,
                  Parameter(<<"a">>, Shape(Empty, "POSITIONAL_OR_KEYWORD", Empty))>>]

(* The error kind build_model raises on a parameter without annotation *)
ConfigurationError == build_model(UntypedParameterClass).st

Misconfigured(c) ==
    \/ ~c.hasInit
    \/ \E i \in 1..Len(NonSelf(c)) :
          \/ NonSelf(c)[i].annotation = Empty
          \/ NonSelf(c)[i].kind # "POSITIONAL_OR_KEYWORD"

(* C1: parse returns no instance when the external name of a required
   attribute is absent from the object, and the failure is the missing-field
   error whenever the attributes before it that are present convert; when
   every required attribute is present and every present attribute
   converts, parse returns an instance whose required fields hold the
   converted values. *)
C1_MissingRequiredField ==
    Parsed =>
        /\ (\E i \in 1..Count : Required(i) /\ ~Present(i))
              => result.st # "ok" /\ result.val = NoValue
        /\ \A i \in 1..Count :
              (/\ Required(i)
               /\ ~Present(i)
               /\ \A k \in 1..(i - 1) : Present(k) => Converted(k).st = "ok")
                  => result.st = MissingFieldError
        /\ (/\ \A i \in 1..Count : Required(i) => Present(i)
            /\ \A i \in 1..Count : Present(i) => Converted(i).st = "ok")
              => /\ result.st = "ok"
                 /\ \A i \in 1..Count :
                       Required(i) =>
                           Field(NonSelf(cls)[i].name) = Converted(i).val

(* C2: an attribute built from a parameter that is not of Optional[T] shape
   is optional exactly when the parameter has a default; and when the object
   omits the external name of an attribute whose parameter has a default,
   parse succeeds provided the other attributes are present and convert or
   may be absent, the field then equals the declared default and every
   present field holds its converted value. *)
C2_DefaultMakesOptional ==
    /\ Built =>
          \A i \in 1..Len(result.val) :
              ~IsOptionalShape(NonSelf(cls)[i].annotation) =>
                  (result.val[i].optional <=> NonSelf(cls)[i].default # Empty)
    /\ Parsed =>
          \A i \in 1..Count :
              (/\ NonSelf(cls)[i].default # Empty
               /\ ~Present(i)
               /\ \A k \in 1..Count :
                     k # i =>
                         IF Present(k)
                         THEN Converted(k).st = "ok"
                         ELSE ~Required(k))
                  => /\ result.st = "ok"
                     /\ Field(NonSelf(cls)[i].name) = NonSelf(cls)[i].default
                     /\ \A k \in 1..Count :
                           Present(k) =>
                               Field(NonSelf(cls)[k].name) = Converted(k).val

(* C3: build_model turns every parameter of Optional[T] shape of a class
   whose parameters are all annotated plain named ones into an attribute
   that has declared type T, is optional whether or not a default exists,
   and is bound to the converter the provider resolves for T. *)
C3_OptionalBindsConverterOfT ==
    (/\ op = "build_model"
     /\ ~Misconfigured(cls)
     /\ Count > 0
     /\ \A i \in 1..Count : IsOptionalShape(NonSelf(cls)[i].annotation))
        => /\ result.st = "ok"
           /\ Len(result.val) = Count
           /\ \A i \in 1..Count :
                 /\ result.val[i].type = DeclaredType(i)
                 /\ result.val[i].optional
                 /\ result.val[i].parser = Converter(i)

(* C4: build_model fails for a class with no constructor, with a parameter
   that has no annotation, or with a parameter that is not a plain named
   one, in all three cases with the same error kind, and builds every other
   class. The kind is the one an unannotated parameter raises. *)
C4_OneConfigurationErrorKind ==
    op = "build_model" =>
        IF Misconfigured(cls)
        THEN result.st = ConfigurationError /\ result.val = NoValue
        ELSE result.st = "ok"

(* C5: the external names of a model build_model returns are pairwise
   distinct, and build_model fails with the configuration error, returning
   no model, for a class two of whose parameters map to the same external
   name under its name rule. The rejection is that of the collision: when
   the parameters are all annotated plain named ones, the class that
   declares any one of them alone builds. *)
Colliding(c) ==
    \E i, k \in 1..Len(NonSelf(c)) :
        /\ i # k
        /\ name_rule(c, NonSelf(c)[i].name) = name_rule(c, NonSelf(c)[k].name)

Alone(c, i) == [c EXCEPT !.params = <<SelfParameter, NonSelf(c)[i]>>]

C6_UnionFirstMatchOrTypeMismatch ==
    op = "UnionParser.parse" =>
        LET alts == parser[2]
            matching == {i \in 1..Len(alts) : UnionMatches(alts[i], json_value)}
        IN IF matching = {}
           THEN result.st = TypeMismatchError
           ELSE LET first == CHOOSE i \in matching : \A k \in matching : i <= k
                IN /\ result.st = Parse(alts[first], json_value).st
                   /\ result.val = Parse(alts[first], json_value).val
                   /\ result.calls = << <<alts[first], json_value>> >>

(* C7: on a JSON array whose elements all convert, ListParser.parse returns
   the sequence of the element converter's results, same length and order;
   on anything that is not an array it fails with the type-mismatch error
   and never calls the element converter. *)
C7_ListParser ==
    op = "ListParser.parse" =>
        LET sub == parser[2]
            items == json_value[2]
        IN IF json_value[1] = "list"
           THEN (\A i \in 1..Len(items) : Parse(sub, items[i]).st = "ok") =>
                    /\ result.st = "ok"
                    /\ result.val[1] = "list"
                    /\ Len(result.val[2]) = Len(items)
                    /\ \A i \in 1..Len(items) :
                          result.val[2][i] = Parse(sub, items[i]).val
           ELSE /\ result.st = TypeMismatchError
                /\ result.val = NoValue
                /\ result.calls = <<>>

C7_Witness ==
    /\ op = "ListParser.parse"
    /\ result.st = "ok"
    /\ Len(result.val[2]) = 2
    /\ result.val[2][1] # result.val[2][2]
    /\ result.val[2][1] # json_value[2][1]

(* C8: DefaultEnumParser.parse returns the member whose name is exactly the
   string and rejects every other string with the type-mismatch error;
   CaseInsensitiveEnumParser.parse returns a member whose name equals the
   string ignoring case when there is one, and rejects the string with the
   type-mismatch error otherwise. *)
EqualIgnoringCase(x, y) ==
    /\ Len(x) = Len(y)
    /\ \A i \in 1..Len(x) :
          x[i] = y[i] \/ UpperChar(x[i]) = y[i] \/ x[i] = UpperChar(y[i])

C8_EnumByName ==
    /\ (op = "DefaultEnumParser.parse" /\ json_value[1] = "str") =>
          IF \E i \in 1..Len(Members(parser[2])) :
                Members(parser[2])[i] = json_value[2]
          THEN result.st = "ok" /\ result.val = EnumMember(parser[2], json_value[2])
          ELSE result.st = TypeMismatchError /\ result.val = NoValue
    /\ (op = "CaseInsensitiveEnumParser.parse" /\ json_value[1] = "str") =>
          IF \E i \in 1..Len(Members(parser[2])) :
                EqualIgnoringCase(Members(parser[2])[i], json_value[2])
          THEN /\ result.st = "ok"
               /\ result.val[1] = "enum"
               /\ result.val[2][1] = parser[2]
               /\ result.val[2][2] \in MemberNames(parser[2])
               /\ EqualIgnoringCase(result.val[2][2], json_value[2])
          ELSE result.st = TypeMismatchError /\ result.val = NoValue

C8_Witness ==
    /\ op = "CaseInsensitiveEnumParser.parse"
    /\ result.st = "ok"
    /\ Len(json_value[2]) = 2
    /\ result.val[2][2] # json_value[2]

(* C9: TypingDictParser.parse maps a JSON object to a mapping with the same
   keys in place, each on the value converter's result, and fails on
   anything that is not an object with the type-mismatch error ListParser
   and SetParser raise. *)
C9_DictParser ==
    op = "TypingDictParser.parse" =>
        IF json_value[1] = "dict"
        THEN result.st = "ok" =>
                /\ result.val[1] = "dict"
                /\ Len(result.val[2]) = Len(json_value[2])
                /\ \A i \in 1..Len(json_value[2]) :
                      /\ result.val[2][i][1] = json_value[2][i][1]
                      /\ result.val[2][i][2] = Parse(parser[2], json_value[2][i][2]).val
        ELSE result.st = TypeMismatchError

(* C10: failure propagation through ListParser, SetParser and
   TypingDictParser, nested or not. *)
ContainerCall ==
    \/ op = "ListParser.parse" /\ json_value[1] = "list"
    \/ op = "SetParser.parse" /\ json_value[1] = "list"
    \/ op = "TypingDictParser.parse" /\ json_value[1] = "dict"

(* The elements the container hands to its element converter, in order *)
Elements ==
    IF json_value[1] = "dict"
    THEN [i \in 1..Len(json_value[2]) |-> json_value[2][i][2]]
    ELSE json_value[2]

ElementResult(i) == Parse(parser[2], Elements[i])

Failing == {i \in 1..Len(Elements) : ElementResult(i).st # "ok"}

FirstFailing == CHOOSE i \in Failing : \A k \in Failing : i <= k

(* SetParser met a converted element it cannot hash before element i *)
UnhashableBefore(i) ==
    /\ op = "SetParser.parse"
    /\ \E k \in 1..(i - 1) : Unhashable(ElementResult(k).val)

(* C10 as stated: when the element converter fails on some element, the
   container fails with the failure of a failing element and returns no
   partial collection; it succeeds only if every element converts. *)
C10_FailsWithElementFailure ==
    ContainerCall =>
        /\ Failing # {} =>
              /\ result.st # "ok"
              /\ result.val = NoValue
              /\ \E i \in Failing : result.st = ElementResult(i).st
        /\ result.st = "ok" => Failing = {}

(* C10 amended: the failure is that of the first failing element, in input
   order, unless SetParser has met before it a converted element that
   cannot be hashed, and then the failure is that TypeError. *)
C10_FailsWithFirstElementFailure ==
    ContainerCall =>
        /\ Failing # {} =>
              /\ result.st # "ok"
              /\ result.val = NoValue
              /\ IF UnhashableBefore(FirstFailing)
                 THEN result.st = "TypeError"
                 ELSE result.st = ElementResult(FirstFailing).st
        /\ result.st = "ok" => Failing = {}

C10_Witness ==
    /\ ContainerCall
    /\ parser[2][1] \in {"List", "Set", "Dict"}
    /\ Len(Elements) = 2
    /\ Failing = {2}
    /\ result.st = ElementResult(2).st

====
